---- MODULE Spec2Model ----
(***************************************************************************)
(* Orchestration scripts of gregdeon/domino.                               *)
(*                                                                         *)
(*   domino/pipelines/imagenet.py                    ("imagenet")          *)
(*   scratch/sabri/10-03_imagenet_synthetic_method.py ("synthetic_method") *)
(*   scratch/sabri/archive/21-07/train.py  (train_model, score_model, ...) *)
(*                                                                         *)
(* A pipeline script is a straight-line sequence of collaborator calls.    *)
(* One invocation is a record: the position in the script, the module      *)
(* level names bound so far, the log of collaborator calls made, what was  *)
(* printed, and the exception that ended it (if any).                      *)
(***************************************************************************)
EXTENDS Integers, Sequences, FiniteSets, TLC

VARIABLES prog, run, twin, trial, tune, task

vars == <<prog, run, twin, trial, tune, task>>

(***************************************************************************)
(* Bounds of the model.                                                    *)
(***************************************************************************)
\* largest worker count given on the command line
MaxWorkers == 2
\* number of corr values of the grid (the num_corrs argument)
NumCorrs == 2
\* rows of the data panel handed to score_model
MaxRows == 2
\* length of the reduction_fns argument
MaxFns == 2
\* largest entry of an activation
MaxAct == 1

(***************************************************************************)
(* Handles: what a collaborator returns.  `by` is the producing call,      *)
(* `kw` the keyword arguments that tell two calls of one function apart,   *)
(* `ops` the local operations applied to it since (load, sample).          *)
(***************************************************************************)
Handle(fn, kw) == [by |-> fn, kw |-> kw, ops |-> <<>>]

None == Handle("None", "")

SeqRange(q) == {q[i] : i \in 1..Len(q)}

IndexOf(q, x) == CHOOSE i \in 1..Len(q) : q[i] = x

(***************************************************************************)
(* The call sites of each script, in source order.                         *)
(***************************************************************************)
\* fault variant: the settings are collected before the images are embedded
ReorderedImagenetProgram ==
    << "find_wordnet", "get_imagenet_dp", "split_dp", "get_wiki_words",
       "embed_words", "collect_rare", "collect_noisy", "concat_settings",
       "embed_bit", "embed_imagenet", "embed_random", "embed_clip",
       "load_sample", "score_mode", "run_sdms", "score_sdms" >>

ImagenetProgram ==
    << "find_wordnet", "get_imagenet_dp", "split_dp", "get_wiki_words",
       "embed_words", "embed_bit", "embed_imagenet", "embed_random",
       "embed_clip", "collect_rare", "collect_noisy", "concat_settings",
       "load_sample", "score_mode", "run_sdms", "score_sdms" >>

SyntheticProgram ==
    << "parse_pipeline_args", "ray_init", "find_wordnet", "get_imagenet_dp",
       "split_dp", "get_wiki_words", "embed_words", "embed_bit",
       "embed_random", "embed_clip", "collect_rare", "collect_noisy",
       "concat_settings", "print_len", "random_filter_settings",
       "score_mode", "run_sdms", "score_sdms" >>

Program(script) ==
    IF script = "imagenet" THEN ImagenetProgram ELSE SyntheticProgram

\* the statement of the program a nested call site belongs to
Enclosing(site) ==
    CASE site = "download_wordnet" -> "find_wordnet"
      [] site = "score_settings" -> "score_mode"
      [] OTHER -> site

Succ(script, site) ==
    LET p == Program(script)
        i == IndexOf(p, Enclosing(site))
    IN  IF i = Len(p) THEN "done" ELSE p[i + 1]

\* `if args.sanity:` guards the only conditional call site
Advance(s) ==
    LET n == Succ(s.script, s.pc)
    IN  IF n = "random_filter_settings" /\ ~s.args.sanity
        THEN Succ(s.script, n)
        ELSE n

\* imagenet.py line 124: the condition of the scoring branch is the literal False
ImagenetSynthetic == FALSE

(***************************************************************************)
(* Pipeline stage of a collaborator function (0: not a pipeline stage).    *)
(***************************************************************************)
Stage(fn) ==
    CASE fn \in {"get_imagenet_dp", "split_dp"} -> 1
      [] fn \in {"get_wiki_words", "embed_words", "embed_images"} -> 2
      [] fn \in {"collect_settings", "concat_settings",
                 "random_filter_settings"} -> 3
      [] fn \in {"train_settings", "score_settings",
                 "synthetic_score_settings"} -> 4
      [] fn = "run_sdms" -> 5
      [] fn = "score_sdms" -> 6
      [] OTHER -> 0

(***************************************************************************)
(* One invocation.                                                         *)
(***************************************************************************)
NoArgs == [worker_idx |-> 0, num_workers |-> 1,
           synthetic |-> FALSE, sanity |-> FALSE]

NoEnv == [data_dp |-> None, split |-> None, words_dp |-> None,
          embs |-> <<>>, setting_dp |-> None, slices_df |-> None]

NewRun(script, argv) ==
    [script |-> script, argv |-> argv, args |-> NoArgs,
     pc |-> Program(script)[1], env |-> NoEnv, tmp |-> <<>>,
     calls |-> <<>>, out |-> <<>>, err |-> "none", caught |-> {}]

\* a line written to standard output
Line(text, a, b) == [text |-> text, a |-> a, b |-> b]

Idle == [NewRun("imagenet", NoArgs) EXCEPT !.pc = "idle"]

Emb(s, key) == (CHOOSE e \in SeqRange(s.env.embs) : e.key = key).emb

EmbHandles(s) == [i \in 1..Len(s.env.embs) |-> s.env.embs[i].emb]

\* an exception nobody catches ends the script
Raise(s, exc) == [s EXCEPT !.pc = "failed", !.err = exc]

\* the call is made (logged) whether it returns or raises
Logged(s, fn, kw, args, ok) ==
    [s EXCEPT !.calls = Append(@, [fn |-> fn, site |-> s.pc, kw |-> kw,
                                   args |-> args, ok |-> ok])]

\* fault variant: a raising call is swallowed and the script goes on
SwallowingCall(s, fn, kw, args, ok) ==
    [Logged(s, fn, kw, args, ok) EXCEPT !.pc = Advance(s)]

Call(s, fn, kw, args, ok) ==
    IF ok THEN [Logged(s, fn, kw, args, ok) EXCEPT !.pc = Advance(s)]
    ELSE Raise(Logged(s, fn, kw, args, ok), fn)

\* name = fn(...): the name is bound only when the call returns
Assign(s, name, fn, kw, args, ok) ==
    LET c == Call(s, fn, kw, args, ok)
    IN  IF ok THEN [c EXCEPT !.env[name] = Handle(fn, kw)] ELSE c

\* an operand of an enclosing expression (a dict or list display): the value
\* is held until the enclosing expression is evaluated
Operand(s, key, fn, kw, args, ok) ==
    LET c == Call(s, fn, kw, args, ok)
    IN  IF ok THEN [c EXCEPT !.tmp = Append(@, [key |-> key,
                                                emb |-> Handle(fn, kw)])]
        ELSE c

(***************************************************************************)
(* The call sites.  `ok` is the collaborator's answer: it returns (TRUE)   *)
(* or raises (FALSE).                                                      *)
(***************************************************************************)
ParsePipelineArgs(s, ok) ==
    LET c == Call(s, "parse_pipeline_args", "", <<>>, ok)
    IN  IF ok
        THEN [c EXCEPT !.args = s.argv,
                       !.out = Append(@, Line("worker_idx, num_workers",
                                              s.argv.worker_idx,
                                              s.argv.num_workers))]
        ELSE c

RayInit(s, ok) == Call(s, "ray.init", "ignore_reinit_error", <<>>, ok)

\* fault variant: no except clause, the LookupError ends the script
PropagatingFindWordnet(s, ok) ==
    Call(s, "nltk.data.find", "corpora/wordnet", <<>>, ok)

\* try: nltk.data.find(...) except LookupError: nltk.download(...)
FindWordnet(s, ok) ==
    LET c == Logged(s, "nltk.data.find", "corpora/wordnet", <<>>, ok)
    IN  IF ok THEN [c EXCEPT !.pc = Advance(s)]
        ELSE [c EXCEPT !.pc = "download_wordnet",
                       !.caught = @ \cup {"LookupError"}]

DownloadWordnet(s, ok) == Call(s, "nltk.download", "wordnet", <<>>, ok)

GetImagenetDp(s, ok) ==
    Assign(s, "data_dp", "get_imagenet_dp", "", <<>>, ok)

SplitDp(s, ok) ==
    Assign(s, "split", "split_dp", "split_on=image_id", <<s.env.data_dp>>, ok)

GetWikiWords(s, ok) ==
    Assign(s, "words_dp", "get_wiki_words", "top_k=10000", <<>>, ok)

EmbedWords(s, ok) ==
    Assign(s, "words_dp", "embed_words", "", <<s.env.words_dp>>, ok)

EmbedImages(s, key, kw, ok) ==
    Operand(s, key, "embed_images", kw, <<s.env.data_dp, s.env.split>>, ok)

EmbedBit(s, ok) == EmbedImages(s, "bit", "bit", ok)

EmbedImagenet(s, ok) == EmbedImages(s, "imagenet", "imagenet", ok)

EmbedRandom(s, ok) == EmbedImages(s, "random", "imagenet/resnet50_random", ok)

\* the last value of the dict display: embs is bound once it returns
EmbedClip(s, ok) ==
    LET c == EmbedImages(s, "clip", "clip", ok)
    IN  IF ok THEN [c EXCEPT !.env.embs = c.tmp, !.tmp = <<>>] ELSE c

CollectSettings(s, category, ok) ==
    Operand(s, category, "collect_settings", category,
            <<s.env.data_dp, s.env.words_dp>>, ok)

CollectRare(s, ok) == CollectSettings(s, "rare", ok)

CollectNoisy(s, ok) == CollectSettings(s, "noisy_label", ok)

ConcatSettings(s, ok) ==
    LET c == Assign(s, "setting_dp", "concat_settings", "",
                    [i \in 1..Len(s.tmp) |-> s.tmp[i].emb], ok)
    IN  IF ok THEN [c EXCEPT !.tmp = <<>>] ELSE c

\* imagenet.py: setting_dp = setting_dp.load(); setting_dp.lz[random choice]
LoadSample(s, ok) ==
    LET c == Call(s, "load", "", <<s.env.setting_dp>>, ok)
    IN  IF ok THEN [c EXCEPT !.env.setting_dp.ops = @ \o <<"load", "sample">>]
        ELSE c

\* synthetic script: print(len(setting_dp.load()))
PrintLen(s, ok) ==
    LET c == Call(s, "load", "", <<s.env.setting_dp>>, ok)
    IN  IF ok THEN [c EXCEPT !.out = Append(@, Line("len(setting_dp)", 0, 0))]
        ELSE c

RandomFilterSettings(s, ok) ==
    Assign(s, "setting_dp", "random_filter_settings", "subset_size=64",
           <<s.env.setting_dp>>, ok)

\* fault variant: each worker scores its own shard of the settings
ShardedSyntheticScoreSettings(s, ok) ==
    Assign(s, "setting_dp", "synthetic_score_settings",
           IF s.args.worker_idx = 0 THEN "shard 0" ELSE "shard n",
           <<s.env.setting_dp, s.env.data_dp, s.env.split>>, ok)

SyntheticScoreSettings(s, ok) ==
    Assign(s, "setting_dp", "synthetic_score_settings", "",
           <<s.env.setting_dp, s.env.data_dp, s.env.split>>, ok)

TrainSettings(s, ok) ==
    LET c == Assign(s, "setting_dp", "train_settings", "",
                    <<s.env.setting_dp, s.env.data_dp, s.env.split>>, ok)
    IN  IF ok THEN [c EXCEPT !.pc = "score_settings"] ELSE c

ScoreSettings(s, ok) ==
    Assign(s, "setting_dp", "score_settings", "mean", <<s.env.setting_dp>>, ok)

\* imagenet.py: if False: synthetic_score_settings else: train, then score
ImagenetScoreMode(s, ok) ==
    IF ImagenetSynthetic THEN SyntheticScoreSettings(s, ok)
    ELSE TrainSettings(s, ok)

\* fault variant: the else branch trains, as in imagenet.py
TrainingSyntheticScoreMode(s, ok) ==
    IF s.args.synthetic THEN SyntheticScoreSettings(s, ok)
    ELSE TrainSettings(s, ok)

\* synthetic script: if args.synthetic: synthetic_score_settings
\*                   else: raise ValueError
SyntheticScoreMode(s, ok) ==
    IF s.args.synthetic THEN SyntheticScoreSettings(s, ok)
    ELSE Raise(s, "ValueError")

ScoreMode(s, ok) ==
    IF s.script = "imagenet" THEN ImagenetScoreMode(s, ok)
    ELSE SyntheticScoreMode(s, ok)

RunSdms(s, ok) ==
    Assign(s, "setting_dp", "run_sdms", "",
           <<s.env.setting_dp>> \o EmbHandles(s)
               \o <<Emb(s, "clip"), s.env.words_dp>>, ok)

ScoreSdms(s, ok) ==
    Assign(s, "slices_df", "score_sdms", "emb_group,alpha,sdm_class",
           <<s.env.setting_dp>>, ok)

\* the statement at the invocation's position
Step(s, ok) ==
    CASE s.pc = "parse_pipeline_args" -> ParsePipelineArgs(s, ok)
      [] s.pc = "ray_init" -> RayInit(s, ok)
      [] s.pc = "find_wordnet" -> FindWordnet(s, ok)
      [] s.pc = "download_wordnet" -> DownloadWordnet(s, ok)
      [] s.pc = "get_imagenet_dp" -> GetImagenetDp(s, ok)
      [] s.pc = "split_dp" -> SplitDp(s, ok)
      [] s.pc = "get_wiki_words" -> GetWikiWords(s, ok)
      [] s.pc = "embed_words" -> EmbedWords(s, ok)
      [] s.pc = "embed_bit" -> EmbedBit(s, ok)
      [] s.pc = "embed_imagenet" -> EmbedImagenet(s, ok)
      [] s.pc = "embed_random" -> EmbedRandom(s, ok)
      [] s.pc = "embed_clip" -> EmbedClip(s, ok)
      [] s.pc = "collect_rare" -> CollectRare(s, ok)
      [] s.pc = "collect_noisy" -> CollectNoisy(s, ok)
      [] s.pc = "concat_settings" -> ConcatSettings(s, ok)
      [] s.pc = "load_sample" -> LoadSample(s, ok)
      [] s.pc = "print_len" -> PrintLen(s, ok)
      [] s.pc = "random_filter_settings" -> RandomFilterSettings(s, ok)
      [] s.pc = "score_mode" -> ScoreMode(s, ok)
      [] s.pc = "score_settings" -> ScoreSettings(s, ok)
      [] s.pc = "run_sdms" -> RunSdms(s, ok)
      [] s.pc = "score_sdms" -> ScoreSdms(s, ok)
      [] OTHER -> s

Live(s) == s.pc \notin {"idle", "done", "failed"}

(***************************************************************************)
(* train.py: train_linear_slices runs train_model once per point of the    *)
(* grid corr x target_correlate (tune.run, num_samples = 1).               *)
(***************************************************************************)
\* the target_correlate_pairs argument
Pairs == {<<"t1", "c1">>, <<"t2", "c2">>}

\* np.linspace(0, max_corr, num_corrs), by index
Corrs == 0..(NumCorrs - 1)

Configs == [corr : Corrs, target_correlate : Pairs]

Metadata(cfg) ==
    [target |-> cfg.target_correlate[1], correlate |-> cfg.target_correlate[2],
     corr |-> cfg.corr]

NoMetadata == [target |-> "", correlate |-> "", corr |-> -1]

NewTrial ==
    [pc |-> "pending", induce |-> "", induces |-> 0, trains |-> 0,
     out |-> <<>>, result |-> "unset", metadata |-> NoMetadata,
     err |-> "none"]

InduceAnswers == {"indices", "CorrelationImpossibleError", "error"}

\* fault variant: CorrelationImpossibleError is not caught
PropagatingTrainModelInduce(t, cfg, ans) ==
    LET c == [t EXCEPT !.induce = ans, !.induces = @ + 1,
                       !.metadata = Metadata(cfg)]
    IN  IF ans = "indices" THEN [c EXCEPT !.pc = "train"]
        ELSE [c EXCEPT !.pc = "raised", !.err = "induce_correlation"]

\* train_model up to and including the try block
TrainModelInduce(t, cfg, ans) ==
    LET c == [t EXCEPT !.induce = ans, !.induces = @ + 1,
                       !.metadata = Metadata(cfg)]
    IN  CASE ans = "indices" -> [c EXCEPT !.pc = "train"]
          [] ans = "CorrelationImpossibleError" ->
                 \* print(e); return
                 [c EXCEPT !.pc = "returned", !.result = "None",
                           !.out = Append(@, ans)]
          [] OTHER -> [c EXCEPT !.pc = "raised", !.err = "induce_correlation"]

\* train(...); return metadata
TrainModelTrain(t, ok) ==
    IF ok THEN [t EXCEPT !.trains = @ + 1, !.pc = "returned",
                         !.result = "metadata"]
    ELSE [t EXCEPT !.trains = @ + 1, !.pc = "raised", !.err = "train"]

Finished(t) == t.pc \in {"returned", "raised"}

\* tune.run returns the analysis once every trial has ended, and raises
\* when a trial raised
TuneRunResult(trials) ==
    IF \E cfg \in DOMAIN trials : trials[cfg].pc = "raised"
    THEN "TuneError" ELSE "returned"

(***************************************************************************)
(* train.py: score_model.                                                  *)
(***************************************************************************)
SplitValues == {"train", "valid", "test"}

\* the values a caller asks for
Requested == {"valid", "test"}

ReductionNames == {"max", "mean", "min"}

SeqsUpTo(S, n) == UNION {[1..k -> S] : k \in 0..n}

\* a data panel: the "split" column, the row's position is its id
DataPanels == SeqsUpTo(SplitValues, MaxRows)

Ordered(S) ==
    SelectSeq(<<"test", "valid">>, LAMBDA x : x \in S)

\* the split argument: a str, or a Collection[str] (a list, a set)
SplitArgs ==
    {[kind |-> "str", vals |-> <<x>>] : x \in Requested}
        \cup {[kind |-> k, vals |-> Ordered(S)] :
                  k \in {"list", "set"}, S \in SUBSET Requested}

ReductionArgs ==
    {[given |-> FALSE, names |-> <<>>]}
        \cup {[given |-> TRUE, names |-> q] : q \in SeqsUpTo(ReductionNames, MaxFns)}

\* an activation's last two dimensions
Dim == {1, 2}

Cells == Dim \X Dim

Activations == [Cells -> 0..MaxAct]

RECURSIVE SumOver(_, _)
SumOver(act, cells) ==
    IF cells = {} THEN 0
    ELSE LET c == CHOOSE x \in cells : TRUE
         IN  act[c] + SumOver(act, cells \ {c})

\* torch.mean(x, dim=[-1, -2]) and torch.amax, as fractions <<num, den>>
TorchMean(act) == <<SumOver(act, Cells), Cardinality(Cells)>>

TorchMax(act) ==
    <<CHOOSE m \in 0..MaxAct :
          /\ \E c \in Cells : act[c] = m
          /\ \A c \in Cells : act[c] <= m, 1>>

SameValue(a, b) == a[1] * b[2] = b[1] * a[2]

Apply(fn, act) ==
    IF fn.fn = "torch.mean" THEN TorchMean(act) ELSE TorchMax(act)

\* fault variant: an unknown name falls back to the mean
DefaultingGetReductionFn(reduction_name) ==
    [fn |-> "torch.mean", name |-> reduction_name, err |-> "none"]

\* score_model._get_reduction_fn
GetReductionFn(reduction_name) ==
    CASE reduction_name = "max" ->
             [fn |-> "torch.mean", name |-> reduction_name, err |-> "none"]
      [] reduction_name = "mean" ->
             [fn |-> "torch.mean", name |-> reduction_name, err |-> "none"]
      [] OTHER -> [fn |-> "", name |-> "", err |-> "ValueError"]

NewTask(dp, split, reduction_fns, layers) ==
    [dp |-> dp, split |-> split, reduction_fns |-> reduction_fns,
     layers |-> layers, pc |-> "layers", fns |-> <<>>, scores |-> 0,
     scored |-> <<>>, act |-> [c \in Cells |-> 0], columns |-> <<>>,
     returned |-> FALSE, err |-> "none"]

NoTask ==
    [NewTask(<<>>, [kind |-> "str", vals |-> <<"test">>],
             [given |-> FALSE, names |-> <<>>], FALSE) EXCEPT !.pc = "idle"]

\* layers = {name: nested_getattr(model, layer) ...}
ResolveLayers(k, ok) ==
    IF k.layers /\ ~ok THEN [k EXCEPT !.pc = "failed", !.err = "AttributeError"]
    ELSE [k EXCEPT !.pc = "reduction_fns"]

\* reduction_fns = list(map(_get_reduction_fn, reduction_fns))
ResolveReductionFns(k) ==
    LET got == [i \in 1..Len(k.reduction_fns.names) |->
                    GetReductionFn(k.reduction_fns.names[i])]
    IN  IF ~k.reduction_fns.given THEN [k EXCEPT !.pc = "score"]
        ELSE IF \E i \in 1..Len(got) : got[i].err # "none"
        THEN [k EXCEPT !.pc = "failed", !.err = "ValueError"]
        ELSE [k EXCEPT !.pc = "score", !.fns = got]

\* np.asarray(test_elements): a set is not a sequence, it becomes an array
\* of one element, the set object itself
AsArray(split) ==
    IF split.kind = "set" THEN <<"<set object>">> ELSE split.vals

NpIsin(column, split) ==
    [i \in 1..Len(column) |-> column[i] \in SeqRange(AsArray(split))]

SplitMask(dp, split) ==
    IF split.kind = "str" THEN [i \in 1..Len(dp) |-> dp[i] = split.vals[1]]
    ELSE NpIsin(dp, split)

\* dp.lz[split_mask]: the ids of the selected rows, in order
Select(dp, mask) ==
    SelectSeq([i \in 1..Len(dp) |-> i], LAMBDA i : mask[i])

\* score(model, dp=dp.lz[split_mask], ..., reduction_fns=reduction_fns) and
\* the return of (score_dp[cols], metadata)
Score(k, ok, act) ==
    LET rows == Select(k.dp, SplitMask(k.dp, k.split))
        c == [k EXCEPT !.scores = @ + 1, !.scored = rows, !.act = act]
    IN  IF ok
        THEN [c EXCEPT !.pc = "done", !.returned = TRUE,
                       !.columns = [i \in 1..Len(k.fns) |->
                                       [name |-> k.fns[i].name,
                                        value |-> Apply(k.fns[i], act)]]]
        ELSE [c EXCEPT !.pc = "failed", !.err = "score"]

(***************************************************************************)
(* Specification.                                                          *)
(***************************************************************************)
Argvs ==
    {a \in [worker_idx : 0..(MaxWorkers - 1), num_workers : 1..MaxWorkers,
            synthetic : BOOLEAN, sanity : BOOLEAN] :
        a.worker_idx < a.num_workers}

NoTrials == [cfg \in Configs |-> NewTrial]

Init ==
    /\ prog \in {"pipeline", "train", "score"}
    /\ twin = Idle
    /\ tune = IF prog = "train" THEN "running" ELSE "idle"
    /\ trial = NoTrials
    /\ IF prog = "pipeline"
       THEN run \in {NewRun("imagenet", NoArgs)}
                \cup {NewRun("synthetic_method", a) : a \in Argvs}
       ELSE run = Idle
    /\ IF prog = "score"
       THEN task \in {NewTask(dp, sp, r, l) :
                          dp \in DataPanels, sp \in SplitArgs,
                          r \in ReductionArgs, l \in BOOLEAN}
       ELSE task = NoTask

At(site) ==
    /\ prog = "pipeline"
    /\ run.pc = site
    /\ \E ok \in BOOLEAN : run' = Step(run, ok)
    /\ UNCHANGED <<prog, twin, trial, tune, task>>

DoParsePipelineArgs == At("parse_pipeline_args")
DoRayInit == At("ray_init")
DoFindWordnet == At("find_wordnet")
DoDownloadWordnet == At("download_wordnet")
DoGetImagenetDp == At("get_imagenet_dp")
DoSplitDp == At("split_dp")
DoGetWikiWords == At("get_wiki_words")
DoEmbedWords == At("embed_words")
DoEmbedBit == At("embed_bit")
DoEmbedImagenet == At("embed_imagenet")
DoEmbedRandom == At("embed_random")
DoEmbedClip == At("embed_clip")
DoCollectRare == At("collect_rare")
DoCollectNoisy == At("collect_noisy")
DoConcatSettings == At("concat_settings")
DoLoadSample == At("load_sample")
DoPrintLen == At("print_len")
DoRandomFilterSettings == At("random_filter_settings")
DoScoreMode == At("score_mode")
DoScoreSettings == At("score_settings")
DoRunSdms == At("run_sdms")
DoScoreSdms == At("score_sdms")

DoTrainModelInduce ==
    /\ prog = "train" /\ tune = "running"
    /\ \E cfg \in Configs, ans \in InduceAnswers :
           /\ trial[cfg].pc = "pending"
           /\ trial' = [trial EXCEPT ![cfg] = TrainModelInduce(@, cfg, ans)]
    /\ UNCHANGED <<prog, run, twin, tune, task>>

DoTrainModelTrain ==
    /\ prog = "train" /\ tune = "running"
    /\ \E cfg \in Configs, ok \in BOOLEAN :
           /\ trial[cfg].pc = "train"
           /\ trial' = [trial EXCEPT ![cfg] = TrainModelTrain(@, ok)]
    /\ UNCHANGED <<prog, run, twin, tune, task>>

DoTuneRunEnd ==
    /\ prog = "train" /\ tune = "running"
    /\ \A cfg \in Configs : Finished(trial[cfg])
    /\ tune' = TuneRunResult(trial)
    /\ UNCHANGED <<prog, run, twin, trial, task>>

DoResolveLayers ==
    /\ prog = "score" /\ task.pc = "layers"
    /\ \E ok \in BOOLEAN : task' = ResolveLayers(task, ok)
    /\ UNCHANGED <<prog, run, twin, trial, tune>>

DoResolveReductionFns ==
    /\ prog = "score" /\ task.pc = "reduction_fns"
    /\ task' = ResolveReductionFns(task)
    /\ UNCHANGED <<prog, run, twin, trial, tune>>

DoScore ==
    /\ prog = "score" /\ task.pc = "score"
    /\ \E ok \in BOOLEAN, act \in Activations : task' = Score(task, ok, act)
    /\ UNCHANGED <<prog, run, twin, trial, tune>>

Next ==
    \/ DoParsePipelineArgs \/ DoRayInit \/ DoFindWordnet \/ DoDownloadWordnet
    \/ DoGetImagenetDp \/ DoSplitDp \/ DoGetWikiWords \/ DoEmbedWords
    \/ DoEmbedBit \/ DoEmbedImagenet \/ DoEmbedRandom \/ DoEmbedClip
    \/ DoCollectRare \/ DoCollectNoisy \/ DoConcatSettings \/ DoLoadSample
    \/ DoPrintLen \/ DoRandomFilterSettings \/ DoScoreMode \/ DoScoreSettings
    \/ DoRunSdms \/ DoScoreSdms
    \/ DoTrainModelInduce \/ DoTrainModelTrain \/ DoTuneRunEnd
    \/ DoResolveLayers \/ DoResolveReductionFns \/ DoScore

Spec == Init /\ [][Next]_vars

(***************************************************************************)
(* Two invocations of the synthetic-method script that differ only in the  *)
(* worker flags and get the same answers from the collaborators.           *)
(***************************************************************************)
InitPair ==
    /\ prog = "pair"
    /\ tune = "idle" /\ trial = NoTrials /\ task = NoTask
    /\ \E a \in Argvs, b \in Argvs :
           /\ a.synthetic = b.synthetic /\ a.sanity = b.sanity
           /\ <<a.worker_idx, a.num_workers>> # <<b.worker_idx, b.num_workers>>
           /\ run = NewRun("synthetic_method", a)
           /\ twin = NewRun("synthetic_method", b)

PairStep ==
    /\ Live(run) \/ Live(twin)
    /\ \E ok \in BOOLEAN :
           /\ run' = Step(run, ok)
           /\ twin' = Step(twin, ok)
    /\ UNCHANGED <<prog, trial, tune, task>>

NextPair == PairStep

SpecPair == InitPair /\ [][NextPair]_vars

(***************************************************************************)
(* Properties.                                                             *)
(***************************************************************************)
Called(s, fn) == \E i \in 1..Len(s.calls) : s.calls[i].fn = fn

Returned(s, fn) ==
    \E i \in 1..Len(s.calls) : s.calls[i].fn = fn /\ s.calls[i].ok

Times(s, fn) == Cardinality({i \in 1..Len(s.calls) : s.calls[i].fn = fn})

Ended(s) == s.pc \in {"done", "failed"}

\* the corpus lookup raised LookupError
LookupFailed(s) ==
    \E i \in 1..Len(s.calls) :
        s.calls[i].fn = "nltk.data.find" /\ ~s.calls[i].ok

StageCalled(s, k) == \E i \in 1..Len(s.calls) : Stage(s.calls[i].fn) = k

Impossible(t) == t.induce = "CorrelationImpossibleError"

\* C1: in train_model a CorrelationImpossibleError of induce_correlation is
\* printed, train is not called for that configuration and train_model
\* returns None; in train_linear_slices every configuration of the grid is
\* attempted, and the run fails only when some trial raised for another reason.
C1_ImpossibleConfigurationSkipped ==
    prog = "train" =>
        /\ \A cfg \in Configs :
               Impossible(trial[cfg]) =>
                   /\ trial[cfg].pc = "returned"
                   /\ trial[cfg].trains = 0
                   /\ trial[cfg].result = "None"
                   /\ trial[cfg].out = <<"CorrelationImpossibleError">>
                   /\ trial[cfg].err = "none"
        /\ \A cfg \in Configs :
               ~Impossible(trial[cfg]) => trial[cfg].out = <<>>
        /\ tune # "running" => \A cfg \in Configs : trial[cfg].induces = 1
        /\ tune = "TuneError" =>
               \E cfg \in Configs :
                   ~Impossible(trial[cfg]) /\ trial[cfg].err # "none"

C1_Witness ==
    /\ prog = "train" /\ tune = "returned"
    /\ \E cfg \in Configs : Impossible(trial[cfg])
    /\ \E cfg \in Configs : trial[cfg].result = "metadata"

\* C2 as stated: nothing but the correlation-impossible condition is
\* recovered from, and after a failed corpus lookup a pipeline script makes
\* no dataset, embedding, setting, train/score or discovery call.
C2_LookupFailureTerminates ==
    prog = "pipeline" =>
        /\ run.caught = {}
        /\ LookupFailed(run) => \A k \in 1..6 : ~StageCalled(run, k)

\* C2 as amended: the LookupError of the corpus lookup is recovered from too
\* (and nothing else in a pipeline script): the script calls nltk.download
\* once and, when that call returns, goes on with the pipeline; only a
\* failure of the download ends the script before the first dataset call.
\* In train_model only CorrelationImpossibleError leads to a return of None.
C2_LookupFailureDownloads ==
    /\ prog = "pipeline" =>
           /\ run.caught \subseteq {"LookupError"}
           /\ run.err # "nltk.data.find"
           /\ LookupFailed(run) <=> "LookupError" \in run.caught
           /\ Called(run, "nltk.download") => LookupFailed(run)
           /\ LookupFailed(run) /\ run.pc # "download_wordnet" =>
                  Times(run, "nltk.download") = 1
           /\ LookupFailed(run) /\ Returned(run, "nltk.download") =>
                  /\ run.pc # "get_imagenet_dp" => Called(run, "get_imagenet_dp")
                  /\ run.err # "nltk.download"
           /\ LookupFailed(run) /\ ~Returned(run, "nltk.download") =>
                  \A k \in 1..6 : ~StageCalled(run, k)
    /\ prog = "train" =>
           \A cfg \in Configs :
               trial[cfg].result = "None" => Impossible(trial[cfg])

C2_Witness ==
    /\ prog = "pipeline" /\ LookupFailed(run)
    /\ run.pc = "done" /\ Returned(run, "score_sdms")

\* the invocation ended and no collaborator call raised
EndedWithoutFailure(s) == Ended(s) /\ \A i \in 1..Len(s.calls) :
                              s.calls[i].ok \/ s.calls[i].fn = "nltk.data.find"

\* C3 as stated: in the synthetic-method script the flag selects
\* synthetic_score_settings (set) or train_settings then score_settings (not
\* set), and in both modes run_sdms and score_sdms are called.
C3_FlagSelectsScoringMode ==
    prog = "pipeline" /\ run.script = "synthetic_method"
        /\ EndedWithoutFailure(run) =>
            /\ run.args.synthetic =>
                   /\ Returned(run, "synthetic_score_settings")
                   /\ ~Called(run, "train_settings")
            /\ ~run.args.synthetic =>
                   /\ Returned(run, "train_settings")
                   /\ Returned(run, "score_settings")
                   /\ ~Called(run, "synthetic_score_settings")
            /\ Returned(run, "run_sdms")
            /\ Returned(run, "score_sdms")

\* C3 as amended: with the flag set the settings are scored by
\* synthetic_score_settings (never by train_settings or score_settings) and
\* the invocation goes on to run_sdms and score_sdms; with the flag not set
\* the script raises ValueError after the settings are collected and makes
\* no train/score, run_sdms or score_sdms call.
C3_FlagSetOrValueError ==
    prog = "pipeline" /\ run.script = "synthetic_method" =>
        /\ ~Called(run, "train_settings") /\ ~Called(run, "score_settings")
        /\ Called(run, "synthetic_score_settings") => run.args.synthetic
        /\ run.err = "ValueError" => ~run.args.synthetic
        /\ EndedWithoutFailure(run) =>
               /\ run.args.synthetic =>
                      /\ run.pc = "done"
                      /\ Returned(run, "synthetic_score_settings")
                      /\ Returned(run, "run_sdms")
                      /\ Returned(run, "score_sdms")
               /\ ~run.args.synthetic =>
                      /\ run.pc = "failed" /\ run.err = "ValueError"
                      /\ Returned(run, "concat_settings")
                      /\ \A k \in 4..6 : ~StageCalled(run, k)

C3_Witness ==
    /\ prog = "pipeline" /\ run.script = "synthetic_method"
    /\ ~run.args.synthetic /\ run.err = "ValueError"

Supported == {"max", "mean"}

BadName(k) ==
    /\ k.reduction_fns.given
    /\ \E i \in 1..Len(k.reduction_fns.names) :
           k.reduction_fns.names[i] \notin Supported

\* C4: in score_model an unsupported name anywhere in reduction_fns raises
\* ValueError before the score collaborator is called (unless resolving the
\* layers has already raised), so nothing is scored or returned; with
\* supported names only, or reduction_fns = None, no ValueError is raised.
C4_UnsupportedReductionRaises ==
    prog = "score" =>
        /\ BadName(task) =>
               /\ task.pc \in {"layers", "reduction_fns", "failed"}
               /\ task.scores = 0 /\ ~task.returned /\ task.columns = <<>>
               /\ task.pc = "failed" =>
                      task.err \in {"ValueError", "AttributeError"}
               /\ task.err = "AttributeError" => task.layers
        /\ ~BadName(task) => task.err # "ValueError"

C4_Witness ==
    /\ prog = "score" /\ task.pc = "failed" /\ task.err = "ValueError"
    /\ task.reduction_fns.names = <<"mean", "min">>

\* C5: in a pipeline script the stages are called in the order dataset,
\* embedding, settings, train/score, discovery, scoring: no call of an
\* earlier stage follows a call of a later one, train_settings precedes
\* score_settings, every call site executes at most once, and every stage
\* that has been passed consumed a handle produced by the stage before it.
C5_StagesInOrder ==
    prog = "pipeline" =>
        /\ \A i, j \in 1..Len(run.calls) :
               i < j =>
                   /\ run.calls[i].site # run.calls[j].site
                   /\ \/ Stage(run.calls[j].fn) = 0
                      \/ Stage(run.calls[i].fn) <= Stage(run.calls[j].fn)
                   /\ run.calls[j].fn = "train_settings" =>
                          run.calls[i].fn # "score_settings"
        /\ \A k \in 2..6 :
               (run.pc = "done" \/ \E m \in (k + 1)..6 : StageCalled(run, m)) =>
                   \E i \in 1..Len(run.calls) :
                       /\ Stage(run.calls[i].fn) = k
                       /\ \E a \in 1..Len(run.calls[i].args) :
                              Stage(run.calls[i].args[a].by) = k - 1

C5_Witness ==
    /\ prog = "pipeline" /\ run.script = "imagenet" /\ run.pc = "done"
    /\ \A k \in 1..6 : StageCalled(run, k)

\* C6: a raising collaborator call (the corpus lookup of C2 aside) is the
\* last call the script makes: it is made once, the script is in its error
\* state with that call as the error, and nothing is called after it.  In
\* train_model a raising train (or induce_correlation, other than with
\* CorrelationImpossibleError) is made once, ends the trial in error with no
\* metadata, and makes the run end in error.
C6_FailureEndsTheScript ==
    /\ prog = "pipeline" =>
           \A i \in 1..Len(run.calls) :
               ~run.calls[i].ok /\ run.calls[i].fn # "nltk.data.find" =>
                   /\ i = Len(run.calls)
                   /\ run.pc = "failed"
                   /\ run.err = run.calls[i].fn
                   /\ \A j \in 1..Len(run.calls) :
                          run.calls[j].site = run.calls[i].site => j = i
    /\ prog = "train" =>
           \A cfg \in Configs :
               /\ trial[cfg].induces <= 1 /\ trial[cfg].trains <= 1
               /\ trial[cfg].induce = "error" =>
                      /\ trial[cfg].pc = "raised" /\ trial[cfg].trains = 0
                      /\ trial[cfg].result = "unset"
               /\ trial[cfg].err = "train" =>
                      /\ trial[cfg].pc = "raised" /\ trial[cfg].trains = 1
                      /\ trial[cfg].result = "unset"
               /\ trial[cfg].err # "none" /\ tune # "running" =>
                      tune = "TuneError"

C6_Witness ==
    /\ prog = "pipeline" /\ run.pc = "failed"
    /\ run.err = "collect_settings" /\ ~StageCalled(run, 4)

C8_ReductionsAreWhatTheyName ==
    prog = "score" /\ task.pc = "done" =>
        /\ Len(task.columns) = Len(task.reduction_fns.names)
        /\ \A i \in 1..Len(task.columns) :
               /\ task.columns[i].name = task.reduction_fns.names[i]
               /\ task.columns[i].name = "max" =>
                      SameValue(task.columns[i].value, TorchMax(task.act))
               /\ task.columns[i].name = "mean" =>
                      SameValue(task.columns[i].value, TorchMean(task.act))

\* the values the split argument asks for
Wanted(split) == SeqRange(split.vals)

\* C9: the rows score_model passes to the scorer are exactly the rows whose
\* "split" value is the requested string, or a member of the requested
\* collection, each once and in order.
C9_ExactlyTheRequestedSplits ==
    prog = "score" /\ task.scores > 0 =>
        /\ SeqRange(task.scored) =
               {i \in 1..Len(task.dp) : task.dp[i] \in Wanted(task.split)}
        /\ \A i, j \in 1..Len(task.scored) : i < j => task.scored[i] < task.scored[j]

====
